---------------------------- MODULE Spec2Model ----------------------------
(***************************************************************************)
(* Fraud-detection batch pipeline: feature vectorisation                   *)
(* (csv_reader.rs), k-means cluster analysis (kmeans.rs), similarity graph *)
(* construction and fraud-ring / repeat-offender analysis (main.rs).       *)
(*                                                                         *)
(* Conventions.  Vec indices and petgraph NodeIndex values are 0-based in  *)
(* the source and 1-based here (Rust index i is TLA+ index i+1).  An f64   *)
(* is a record [k, n, d]: k = "fin" with the exact rational n/d in lowest  *)
(* terms, or k \in {"nan", "pinf", "ninf"}.  An Option<T> is a record      *)
(* [some, v].                                                              *)
(***************************************************************************)
EXTENDS Integers, Sequences, FiniteSets, TLC

VARIABLES
    pc,                      \* position of the program
    transactions,            \* the input slice &[Transaction]
    n_clusters,              \* analyze_clusters' n_clusters argument
    features,                \* analyze_clusters: Vec<Vec<f64>> of feature vectors
    model,                   \* analyze_clusters: outcome of KMeans fit (+ predict)
    cluster_idx,             \* analyze_clusters: loop variable of line 63
    cluster_analyses,        \* analyze_clusters: Vec<ClusterAnalysis> being built
    result,                  \* analyze_clusters: the returned Result
    graph,                   \* build_transaction_graph: [nodes, edges]
    user_fraud_counts,       \* analyze_fraud_patterns: HashMap user -> count
    user_transaction_counts, \* analyze_fraud_patterns: HashMap user -> count
    repeat_offenders,        \* analyze_fraud_patterns: users with count > 1
    node_cursor,             \* analyze_fraud_patterns: position in graph.node_indices()
    visited,                 \* analyze_fraud_patterns: HashSet of nodes
    stack,                   \* analyze_fraud_patterns: DFS stack
    component,               \* analyze_fraud_patterns: component being collected
    fraud_rings,             \* analyze_fraud_patterns: Vec of recorded rings
    pushes,                  \* history: per node, how often it was pushed on stack
    pops,                    \* history: per node, how often it was popped from stack
    components               \* history: every component the traversal completed

vars == << pc, transactions, n_clusters, features, model, cluster_idx,
           cluster_analyses, result, graph, user_fraud_counts,
           user_transaction_counts, repeat_offenders, node_cursor, visited,
           stack, component, fraud_rings, pushes, pops, components >>

clusterVars == << features, model, cluster_idx, cluster_analyses, result >>

graphVars == << graph, user_fraud_counts, user_transaction_counts,
                repeat_offenders, node_cursor, visited, stack, component,
                fraud_rings, pushes, pops, components >>

----------------------------------------------------------------------------
(* Bounds of the model *)

\* longest transaction list given to analyze_clusters
MaxN == 3

\* largest n_clusters given to analyze_clusters
MaxK == 3

\* longest transaction list given to build_transaction_graph
MaxNodes == 3

\* longest transaction list given to main
MaxMain == 2

----------------------------------------------------------------------------
(* f64 arithmetic *)

Abs(x) == IF x < 0 THEN -x ELSE x

RECURSIVE GCD(_, _)
GCD(a, b) == IF b = 0 THEN a ELSE GCD(b, a % b)

NaN == [k |-> "nan", n |-> 0, d |-> 1]

PosInf == [k |-> "pinf", n |-> 0, d |-> 1]

NegInf == [k |-> "ninf", n |-> 0, d |-> 1]

\* the rational n/d (d > 0) in lowest terms: p is << n, d, gcd(|n|, d) >>
Rat(n, d) ==
    CHOOSE r \in { [k |-> "fin", n |-> p[1] \div p[3], d |-> p[2] \div p[3]] :
                     p \in { << q[1], q[2], GCD(Abs(q[1]), q[2]) >> : q \in { << n, d >> } } } : TRUE

\* an integer converted with `as f64`
Fin(n) == [k |-> "fin", n |-> n, d |-> 1]

\* f64::is_finite
is_finite(x) == x.k = "fin"

\* x > 0.0 (false for NaN)
FGtZero(x) == x.k = "pinf" \/ (x.k = "fin" /\ x.n > 0)

\* x == 0.0
FIsZero(x) == x.k = "fin" /\ x.n = 0

\* log10 of an exact power of ten 10^e, e >= 0
RECURSIVE Log10Int(_)
Log10Int(n) == IF n <= 1 THEN 0 ELSE 1 + Log10Int(n \div 10)

\* f64::log10 on an argument that is > 0.0; finite arguments are the
\* powers of ten the inputs are drawn from
log10(x) == IF x.k = "pinf" THEN PosInf ELSE Fin(Log10Int(x.n))

\* x % m for a finite x and a positive integer m: the remainder takes the
\* sign of the dividend (fmod)
FRem(x, m) ==
    IF x.k # "fin" THEN NaN
    ELSE IF x.n >= 0 THEN Rat(x.n % (m * x.d), x.d)
         ELSE Rat(-((-x.n) % (m * x.d)), x.d)

\* x / m for a positive integer m
FDivInt(x, m) == IF x.k = "fin" THEN Rat(x.n, x.d * m) ELSE x

\* x + y
FAdd(x, y) ==
    IF x.k = "nan" \/ y.k = "nan" THEN NaN
    ELSE IF x.k = "fin" /\ y.k = "fin" THEN Rat(x.n * y.d + y.n * x.d, x.d * y.d)
    ELSE IF x.k = "fin" THEN y
    ELSE IF y.k = "fin" THEN x
    ELSE IF x.k = y.k THEN x
    ELSE NaN

\* x * y
FMul(x, y) ==
    IF x.k = "nan" \/ y.k = "nan" THEN NaN
    ELSE IF x.k = "fin" /\ y.k = "fin" THEN Rat(x.n * y.n, x.d * y.d)
    ELSE IF FIsZero(x) \/ FIsZero(y) THEN NaN
    ELSE LET xpos == x.k = "pinf" \/ (x.k = "fin" /\ x.n > 0)
             ypos == y.k = "pinf" \/ (y.k = "fin" /\ y.n > 0)
         IN  IF xpos = ypos THEN PosInf ELSE NegInf

\* sum of a sequence of f64, left to right from 0.0
RECURSIVE FSum(_)
FSum(s) == IF s = << >> THEN Fin(0) ELSE FAdd(FSum(SubSeq(s, 1, Len(s) - 1)), s[Len(s)])

----------------------------------------------------------------------------
(* Option<T> *)

Some(x) == [some |-> TRUE, v |-> x]

NoneF == [some |-> FALSE, v |-> Fin(0)]

NoneI == [some |-> FALSE, v |-> 0]

NoneS == [some |-> FALSE, v |-> ""]

unwrap_or(o, dflt) == IF o.some THEN o.v ELSE dflt

----------------------------------------------------------------------------
(* csv_reader.rs: Transaction and to_feature_vector *)

\* a Transaction value; device_used and location are never read
Transaction(id, user, amount, type, time, prev, age, n24, payment, fraud) ==
    [ transaction_id |-> id,
      user_id |-> user,
      transaction_amount |-> amount,
      transaction_type |-> type,
      time_of_transaction |-> time,
      device_used |-> NoneS,
      location |-> NoneS,
      previous_fraudulent_transactions |-> prev,
      account_age |-> age,
      number_of_transactions_last_24h |-> n24,
      payment_method |-> payment,
      fraudulent |-> fraud ]

\* the match on transaction_type
TypeCode(type) ==
    CASE type = "ATM Withdrawal" -> 0
      [] type = "Bill Payment" -> 1
      [] type = "Online Purchase" -> 2
      [] type = "Transfer" -> 3
      [] OTHER -> 4

\* the match on payment_method.as_deref()
PaymentCode(payment) ==
    CASE payment = Some("Credit Card") -> 0
      [] payment = Some("Debit Card") -> 1
      [] payment = Some("PayPal") -> 2
      [] payment = Some("Bank Transfer") -> 3
      [] OTHER -> 4

\* features.push(if amount > 0.0 { amount.log10() } else { 0.0 })
LogSlot(amount) == IF FGtZero(amount) THEN log10(amount) ELSE Fin(0)

\* the time-fraction slot
TimeFractionSlot(time) ==
    IF is_finite(time) THEN FDivInt(FRem(time, 24), 24) ELSE Fin(0)

to_feature_vector(tx) ==
    LET amount == unwrap_or(tx.transaction_amount, Fin(0))
        time == unwrap_or(tx.time_of_transaction, Fin(0))
    IN  << IF is_finite(amount) THEN amount ELSE Fin(0),
           LogSlot(amount),
           IF is_finite(time) THEN time ELSE Fin(0),
           TimeFractionSlot(time),
           Fin(unwrap_or(tx.previous_fraudulent_transactions, 0)),
           Fin(unwrap_or(tx.account_age, 0)),
           Fin(unwrap_or(tx.number_of_transactions_last_24h, 0)),
           Fin(TypeCode(tx.transaction_type)),
           Fin(PaymentCode(tx.payment_method)) >>

----------------------------------------------------------------------------
(* Inputs *)

CreditCard == Some("Credit Card")

\* records given to analyze_clusters: two users, fraud labels 1, 0 and
\* absent, two records with equal feature vectors, an absent amount and
\* payment method, and a non-finite amount
ClusterRecords ==
    { Transaction("T1", 1, Some(Fin(10)), "ATM Withdrawal", Some(Fin(1)),
                  Some(0), NoneI, NoneI, CreditCard, Some(0)),
      Transaction("T2", 2, Some(Fin(10)), "ATM Withdrawal", Some(Fin(1)),
                  Some(0), NoneI, NoneI, CreditCard, Some(1)),
      Transaction("T3", 1, NoneF, "Transfer", NoneF,
                  NoneI, NoneI, Some(2), NoneS, Some(1)),
      Transaction("T4", 2, Some(PosInf), "Transfer", Some(Fin(36)),
                  Some(1), NoneI, NoneI, Some("PayPal"), NoneI) }

\* all sequences over S of length at most n
SeqsUpTo(S, n) == UNION { [1..m -> S] : m \in 0..n }

----------------------------------------------------------------------------
(* kmeans.rs: analyze_clusters *)

Ok(v) == [tag |-> "Ok", value |-> v, err |-> ""]

Err(e) == [tag |-> "Err", value |-> << >>, err |-> e]

Panic(e) == [tag |-> "Panic", value |-> << >>, err |-> e]

NoResult == [tag |-> "none", value |-> << >>, err |-> ""]

NoModel == [tag |-> "none", pred |-> << >>]

\* no early return at all
EarlyReturnNever(txs) == FALSE

\* an early return on a list of at most one transaction
EarlyReturnUpToOne(txs) == Len(txs) <= 1

\* if transactions.is_empty() { return Ok(Vec::new()); }
EarlyReturn(txs) == txs = << >>

\* KMeans::params(n_clusters) ... .fit(): the parameter check of the
\* clustering library rejects n_clusters == 0 and nothing else about k
InvalidNClusters(k) == k = 0

\* every value of the data matrix is finite
AllFinite(fs) == \A i \in 1..Len(fs) : \A j \in 1..Len(fs[i]) : is_finite(fs[i][j])

\* model.predict(&dataset): one cluster id in [0, k) per row, the same id
\* for equal rows (the nearest centroid is a function of the row)
Predictions(fs, k) ==
    { p \in [1..Len(fs) -> 0..(k - 1)] :
        \A i, j \in 1..Len(fs) : fs[i] = fs[j] => p[i] = p[j] }

\* the members filter with the comparison off by one
ClusterMembersOffByOne(pred, idx) ==
    LET F[i \in 0..Len(pred)] ==
            IF i = 0 THEN << >>
            ELSE IF pred[i] > idx THEN Append(F[i - 1], i) ELSE F[i - 1]
    IN  F[Len(pred)]

\* .zip(model.predict(&dataset).iter()).filter(|(_, &pred)| pred == cluster_idx):
\* the indices of the members of cluster idx, in input order
ClusterMembers(pred, idx) ==
    LET F[i \in 0..Len(pred)] ==
            IF i = 0 THEN << >>
            ELSE IF pred[i] = idx THEN Append(F[i - 1], i) ELSE F[i - 1]
    IN  F[Len(pred)]

\* the fraud count taken over the whole input instead of the members
FraudCountAll(txs, members) ==
    Cardinality({ i \in 1..Len(txs) : txs[i].fraudulent = Some(1) })

\* filter(|tx| tx.fraudulent == Some(1)).count()
FraudCount(txs, members) ==
    Cardinality({ i \in 1..Len(members) : txs[members[i]].fraudulent = Some(1) })

\* map(|tx| tx.user_id).collect::<HashSet<_>>().len()
UniqueUsers(txs, members) ==
    Cardinality({ txs[members[i]].user_id : i \in 1..Len(members) })

\* avg_features: per slot, the sum over the members divided by size
AvgFeatures(txs, members, n_features) ==
    [ j \in 1..n_features |->
        FDivInt(FSum([ i \in 1..Len(members) |-> to_feature_vector(txs[members[i]])[j] ]),
                Len(members)) ]

\* number of members whose key is c
KeyCount(keys, c) == Cardinality({ i \in 1..Len(keys) : keys[i] = c })

\* into_iter().max_by_key(|&(_, count)| count) over a HashMap: the last
\* maximum in the map's iteration order, which differs from run to run, so
\* any key with the highest count
MostCommon(keys) ==
    { c \in { keys[i] : i \in 1..Len(keys) } :
        \A i \in 1..Len(keys) : KeyCount(keys, keys[i]) <= KeyCount(keys, c) }

TypeKeys(txs, members) == [ i \in 1..Len(members) |-> txs[members[i]].transaction_type ]

PaymentKeys(txs, members) == [ i \in 1..Len(members) |-> txs[members[i]].payment_method ]

\* lines 35-38: the early return on an empty slice
AnalyzeClustersEmpty ==
    /\ pc = "start"
    /\ EarlyReturn(transactions)
    /\ result' = Ok(<< >>)
    /\ pc' = "clustered"
    /\ UNCHANGED << transactions, n_clusters, features, model, cluster_idx,
                    cluster_analyses, graphVars >>

\* lines 40-52: the feature vectors and the data matrix
Vectorize ==
    /\ pc = "start"
    /\ ~EarlyReturn(transactions)
    /\ features' = [ i \in 1..Len(transactions) |-> to_feature_vector(transactions[i]) ]
    /\ IF features' = << >>
       THEN \* features[0] on an empty Vec panics
            /\ result' = Panic("index out of bounds")
            /\ pc' = "clustered"
       ELSE /\ result' = result
            /\ pc' = "fit"
    /\ UNCHANGED << transactions, n_clusters, model, cluster_idx,
                    cluster_analyses, graphVars >>

\* lines 55-59, fit fails and `?` returns the error: n_clusters == 0 is
\* rejected; on a matrix holding a non-finite value the library's outcome
\* is not fixed by this repository, and failure is one of the outcomes
FitErr ==
    /\ pc = "fit"
    /\ \/ /\ InvalidNClusters(n_clusters)
          /\ result' = Err("NClusters")
       \/ /\ ~InvalidNClusters(n_clusters)
          /\ ~AllFinite(features)
          /\ result' = Err("InertiaError")
    /\ model' = [tag |-> "err", pred |-> << >>]
    /\ pc' = "clustered"
    /\ UNCHANGED << transactions, n_clusters, features, cluster_idx,
                    cluster_analyses, graphVars >>

\* lines 55-59, fit succeeds: the fitted model assigns every row a cluster
\* id in [0, n_clusters); which one depends on the random initialisation
FitOk ==
    /\ pc = "fit"
    /\ ~InvalidNClusters(n_clusters)
    /\ \E p \in Predictions(features, n_clusters) :
           model' = [tag |-> "ok", pred |-> p]
    /\ cluster_idx' = 0
    /\ cluster_analyses' = << >>
    /\ pc' = "analyze"
    /\ UNCHANGED << transactions, n_clusters, features, result, graphVars >>

\* lines 63-123: one iteration of the loop over cluster_idx
AnalyzeCluster ==
    /\ pc = "analyze"
    /\ cluster_idx < n_clusters
    /\ LET cluster_transactions == ClusterMembers(model.pred, cluster_idx)
           size == Len(cluster_transactions)
       IN  IF size = 0
           THEN cluster_analyses' = cluster_analyses
           ELSE \E t \in MostCommon(TypeKeys(transactions, cluster_transactions)),
                   p \in MostCommon(PaymentKeys(transactions, cluster_transactions)) :
                    cluster_analyses' = Append(cluster_analyses,
                        [ size |-> size,
                          fraud_count |-> FraudCount(transactions, cluster_transactions),
                          unique_users |-> UniqueUsers(transactions, cluster_transactions),
                          avg_features |-> AvgFeatures(transactions, cluster_transactions,
                                                       Len(features[1])),
                          most_common_tx_type |-> t,
                          most_common_payment |-> p ])
    /\ cluster_idx' = cluster_idx + 1
    /\ UNCHANGED << pc, transactions, n_clusters, features, model, result, graphVars >>

\* line 125: Ok(cluster_analyses)
ReturnClusters ==
    /\ pc = "analyze"
    /\ cluster_idx = n_clusters
    /\ result' = Ok(cluster_analyses)
    /\ pc' = "clustered"
    /\ UNCHANGED << transactions, n_clusters, features, model, cluster_idx,
                    cluster_analyses, graphVars >>

NextClusters ==
    \/ AnalyzeClustersEmpty
    \/ Vectorize
    \/ FitErr
    \/ FitOk
    \/ AnalyzeCluster
    \/ ReturnClusters

\* the state before anything has run
InitRest ==
    /\ features = << >>
    /\ model = NoModel
    /\ cluster_idx = 0
    /\ cluster_analyses = << >>
    /\ result = NoResult
    /\ graph = [nodes |-> << >>, edges |-> << >>]
    /\ user_fraud_counts = << >>
    /\ user_transaction_counts = << >>
    /\ repeat_offenders = {}
    /\ node_cursor = 0
    /\ visited = {}
    /\ stack = << >>
    /\ component = << >>
    /\ fraud_rings = << >>
    /\ pushes = << >>
    /\ pops = << >>
    /\ components = << >>

\* analyze_clusters called on a list of up to MaxN records with any
\* n_clusters up to MaxK
InitClusters ==
    /\ pc = "start"
    /\ transactions \in SeqsUpTo(ClusterRecords, MaxN)
    /\ n_clusters \in 0..MaxK
    /\ InitRest

SpecClusters == InitClusters /\ [][NextClusters]_vars

----------------------------------------------------------------------------
(* analyze_clusters: properties *)

Returned == pc = "clustered"

\* ascending list of the cluster ids below upto that have a member: entry
\* j of cluster_analyses is the analysis of cluster NonEmptyIds(..)[j]
NonEmptyIds(pred, upto) ==
    LET F[c \in 0..upto] ==
            IF c = 0 THEN << >>
            ELSE IF ClusterMembers(pred, c - 1) # << >>
                 THEN Append(F[c - 1], c - 1) ELSE F[c - 1]
    IN  F[upto]

RECURSIVE SumSizes(_)
SumSizes(cs) == IF cs = << >> THEN 0 ELSE cs[1].size + SumSizes(Tail(cs))

\* C1 as stated: whenever k == 0 or k > N, analyze_clusters returns an
\* error and never a successful result.
C1_FailsOnInvalidK ==
    (Returned /\ (n_clusters = 0 \/ n_clusters > Len(transactions)))
        => result.tag = "Err"

\* C1 amended: on a non-empty list with k == 0 analyze_clusters returns the
\* parameter error; on an empty list it returns Ok with an empty result
\* whatever k is (k == 0 and k > N included).
C1_FailsOnZeroKUnlessEmpty ==
    Returned =>
        /\ (transactions # << >> /\ n_clusters = 0) => result = Err("NClusters")
        /\ transactions = << >> => result = Ok(<< >>)

C1_Witness ==
    /\ Returned
    /\ Len(transactions) = 2
    /\ n_clusters = 0
    /\ result.tag = "Err"

\* C2: for N >= 1 transactions and 1 <= k <= N, every transaction's cluster
\* id is in [0,k) and the sizes of the returned entries sum to N.
C2_SizesSumToN ==
    (Returned /\ result.tag = "Ok" /\ Len(transactions) >= 1
        /\ 1 <= n_clusters /\ n_clusters <= Len(transactions))
        => /\ \A i \in 1..Len(transactions) :
                 Cardinality({ c \in 0..(n_clusters - 1) :
                     \E m \in 1..Len(ClusterMembers(model.pred, c)) :
                         ClusterMembers(model.pred, c)[m] = i }) = 1
           /\ SumSizes(result.value) = Len(transactions)

C2_Witness ==
    /\ Returned
    /\ result.tag = "Ok"
    /\ Len(transactions) = 3
    /\ n_clusters = 2
    /\ Len(result.value) = 2

\* C3 as stated: every slot of every feature vector is finite, whatever the
\* amount and time of the record, and so is every component of every
\* cluster's avg_features.
C3_NoNonFiniteValue ==
    /\ AllFinite(features)
    /\ \A j \in 1..Len(cluster_analyses) :
           \A s \in 1..Len(cluster_analyses[j].avg_features) :
               is_finite(cluster_analyses[j].avg_features[s])

\* the lowest type code among the types tied for the highest count
LowestTiedType(keys) ==
    CHOOSE m \in { TypeCode(c) : c \in MostCommon(keys) } :
        \A c \in MostCommon(keys) : m <= TypeCode(c)

\* the lowest payment code among the payment methods tied for the highest
\* count
LowestTiedPayment(keys) ==
    CHOOSE m \in { PaymentCode(c) : c \in MostCommon(keys) } :
        \A c \in MostCommon(keys) : m <= PaymentCode(c)

\* C6 as stated: among the categories tied for the highest count in a
\* cluster, most_common_tx_type (most_common_payment) is the one with the
\* lowest index in the vectorizer's enumeration order.
C6_TieBrokenByLowestIndex ==
    model.tag = "ok" =>
        \A j \in 1..Len(cluster_analyses) :
            LET members == ClusterMembers(model.pred,
                               NonEmptyIds(model.pred, cluster_idx)[j])
            IN  /\ TypeCode(cluster_analyses[j].most_common_tx_type)
                       = LowestTiedType(TypeKeys(transactions, members))
                /\ PaymentCode(cluster_analyses[j].most_common_payment)
                       = LowestTiedPayment(PaymentKeys(transactions, members))

\* C9: every entry has size > 0, fraud_count <= size and unique_users <=
\* size, and the returned list has one entry per cluster id with a member,
\* none for a cluster id without one.
C9_EntriesWellFormed ==
    /\ \A j \in 1..Len(cluster_analyses) :
           /\ cluster_analyses[j].size > 0
           /\ cluster_analyses[j].fraud_count <= cluster_analyses[j].size
           /\ cluster_analyses[j].unique_users <= cluster_analyses[j].size
    /\ (Returned /\ result.tag = "Ok" /\ model.tag = "ok") =>
           /\ result.value = cluster_analyses
           /\ Len(result.value) = Len(NonEmptyIds(model.pred, n_clusters))
           /\ \A j \in 1..Len(result.value) :
                  result.value[j].size
                      = Len(ClusterMembers(model.pred,
                                NonEmptyIds(model.pred, n_clusters)[j]))

\* a returned result with an empty cluster id dropped and an entry holding
\* two records of one user, one of them fraudulent
C9_Witness ==
    /\ Returned
    /\ result.tag = "Ok"
    /\ n_clusters = 3
    /\ Len(result.value) = 2
    /\ \E j \in 1..Len(result.value) :
           /\ result.value[j].size = 2
           /\ result.value[j].unique_users = 1
           /\ result.value[j].fraud_count = 1

----------------------------------------------------------------------------
(* to_feature_vector on single records *)

\* f64 values of an optional amount or time: absent, zero, powers of ten,
\* a negative value, NaN and the infinities
AmountValues == { NoneF, Some(Fin(0)), Some(Fin(1)), Some(Fin(10)), Some(Fin(100)),
                  Some(Fin(-10)), Some(NaN), Some(PosInf), Some(NegInf) }

TimeValues == { NoneF, Some(Fin(0)), Some(Fin(1)), Some(Fin(12)), Some(Fin(25)),
                Some(Fin(-1)), Some(NaN), Some(PosInf), Some(NegInf) }

TypeValues == { "ATM Withdrawal", "Bill Payment", "Online Purchase", "Transfer", "Refund" }

PaymentValues == { NoneS, Some("Credit Card"), Some("Debit Card"), Some("PayPal"),
                   Some("Bank Transfer"), Some("Cash") }

VectorizeRecords ==
    { Transaction("T1", 1, amount, type, time, prev, age, n24, payment, Some(0)) :
        amount \in AmountValues, type \in TypeValues, time \in TimeValues,
        prev \in { NoneI, Some(0), Some(1) }, age \in { NoneI, Some(365) },
        n24 \in { NoneI, Some(2) }, payment \in PaymentValues }

\* one record is vectorized
InitVectorize ==
    /\ pc = "start"
    /\ transactions \in { << tx >> : tx \in VectorizeRecords }
    /\ n_clusters = 1
    /\ InitRest

NextVectorize == Vectorize

SpecVectorize == InitVectorize /\ [][NextVectorize]_vars

Vectorized == pc = "fit"

\* every optional numeric field is present
FullyPopulated(tx) ==
    /\ tx.transaction_amount.some
    /\ tx.time_of_transaction.some
    /\ tx.previous_fraudulent_transactions.some
    /\ tx.account_age.some
    /\ tx.number_of_transactions_last_24h.some

\* every optional numeric field is absent
NumericFieldsAbsent(tx) ==
    /\ ~tx.transaction_amount.some
    /\ ~tx.time_of_transaction.some
    /\ ~tx.previous_fraudulent_transactions.some
    /\ ~tx.account_age.some
    /\ ~tx.number_of_transactions_last_24h.some

\* record 1 of the test data
TestRecord1 ==
    Transaction("T1", 1, Some(Fin(100)), "Online Purchase", Some(Fin(1)),
                Some(0), Some(365), Some(2), Some("Credit Card"), Some(0))

\* C7 as stated: on a fully populated record (finite amount and time)
\* to_feature_vector returns the 5 values [amount, time, prior-fraud count,
\* account age, 24h count]; on test record 1, [100, 1, 0, 365, 2].
C7_FiveElementVector ==
    Vectorized =>
        /\ (FullyPopulated(transactions[1])
               /\ is_finite(transactions[1].transaction_amount.v)
               /\ is_finite(transactions[1].time_of_transaction.v))
             => features[1] = << transactions[1].transaction_amount.v,
                                 transactions[1].time_of_transaction.v,
                                 Fin(transactions[1].previous_fraudulent_transactions.v),
                                 Fin(transactions[1].account_age.v),
                                 Fin(transactions[1].number_of_transactions_last_24h.v) >>
        /\ transactions[1] = TestRecord1
             => features[1] = << Fin(100), Fin(1), Fin(0), Fin(365), Fin(2) >>

\* C8 as stated: the vector has the same length for every record, and a
\* record with every optional numeric field absent yields the all-zero
\* vector of that length.
C8_AbsentFieldsGiveZeroVector ==
    Vectorized =>
        /\ Len(features[1]) = Len(to_feature_vector(TestRecord1))
        /\ NumericFieldsAbsent(transactions[1])
             => features[1] = [ j \in 1..Len(features[1]) |-> Fin(0) ]

----------------------------------------------------------------------------
(* main.rs: cosine_similarity and build_transaction_graph *)

\* let similarity_threshold = 0.7, as the fraction ThresholdNum / ThresholdDen
ThresholdNum == 7

ThresholdDen == 10

\* x < y for finite x and y
FLt(x, y) == x.n * y.d < y.n * x.d

\* a.iter().zip(b.iter()).map(|(x, y)| x * y).sum()
Dot(a, b) == FSum([ i \in 1..Len(a) |-> FMul(a[i], b[i]) ])

\* cosine_similarity(a, b) > num / den.  The function returns 0.0 when a
\* norm is 0.0; when a norm or the dot product is not finite the quotient
\* is 0.0 or NaN, and neither exceeds the threshold; otherwise
\* dot / (|a| |b|) > num / den iff dot > 0 and
\* den^2 dot^2 > num^2 |a|^2 |b|^2
SimilarityExceeds(a, b, num, den) ==
    LET dot == Dot(a, b)
        norm_a_sq == Dot(a, a)
        norm_b_sq == Dot(b, b)
    IN  IF FIsZero(norm_a_sq) \/ FIsZero(norm_b_sq) THEN FALSE
        ELSE IF ~(is_finite(dot) /\ is_finite(norm_a_sq) /\ is_finite(norm_b_sq)) THEN FALSE
        ELSE /\ dot.n > 0
             /\ FLt(FMul(Fin(num * num), FMul(norm_a_sq, norm_b_sq)),
                    FMul(Fin(den * den), FMul(dot, dot)))

\* node_indices after the first loop: the map from a transaction id to the
\* node added last for that id (insert overwrites)
NodeIndices(txs) ==
    [ id \in { txs[i].transaction_id : i \in 1..Len(txs) } |->
        CHOOSE i \in 1..Len(txs) :
            /\ txs[i].transaction_id = id
            /\ \A j \in 1..Len(txs) : txs[j].transaction_id = id => j <= i ]

\* the node of record i taken to be node i, whatever the ids
NodeOfByPosition(txs, i) == i

\* node_indices.get(&transactions[i].transaction_id).unwrap()
NodeOf(txs, i) == NodeIndices(txs)[txs[i].transaction_id]

\* the pairs (i, j), i < j, in the order of the nested loops
PairSeq(n) ==
    LET F[i \in 0..n] ==
            IF i = 0 THEN << >>
            ELSE F[i - 1] \o [ j \in 1..(n - i) |-> << i, i + j >> ]
    IN  F[n]

\* the edges added by the nested loops, in the order of the add_edge calls
BuildEdges(txs, fs) ==
    LET ps == PairSeq(Len(txs))
        F[m \in 0..Len(ps)] ==
            IF m = 0 THEN << >>
            ELSE IF SimilarityExceeds(fs[ps[m][1]], fs[ps[m][2]],
                                      ThresholdNum, ThresholdDen)
                 THEN Append(F[m - 1], << NodeOf(txs, ps[m][1]), NodeOf(txs, ps[m][2]) >>)
                 ELSE F[m - 1]
    IN  F[Len(ps)]

\* build_transaction_graph: node i carries a reference to transactions[i]
build_transaction_graph(txs) ==
    [ nodes |-> [ i \in 1..Len(txs) |-> i ],
      edges |-> BuildEdges(txs, [ i \in 1..Len(txs) |-> to_feature_vector(txs[i]) ]) ]

Reverse(s) == [ i \in 1..Len(s) |-> s[Len(s) + 1 - i] ]

\* graph.neighbors(a) of an undirected petgraph Graph: the targets of the
\* edges whose source is a, newest edge first, then the sources of the
\* edges whose target is a, newest first, self-loops not repeated
Neighbors(g, a) ==
    LET r == Reverse(g.edges)
        out == SelectSeq(r, LAMBDA e : e[1] = a)
        inc == SelectSeq(r, LAMBDA e : e[2] = a /\ e[1] # a)
    IN  [ i \in 1..Len(out) |-> out[i][2] ] \o [ i \in 1..Len(inc) |-> inc[i][1] ]

\* graph.node_weight(node).unwrap()
NodeWeight(g, txs, node) == txs[g.nodes[node]]

----------------------------------------------------------------------------
(* main.rs: component metrics *)

SeqToSet(s) == { s[i] : i \in 1..Len(s) }

Min(a, b) == IF a <= b THEN a ELSE b

Max(a, b) == IF a >= b THEN a ELSE b

calculate_component_density(g, component_nodes) ==
    LET n == Len(component_nodes)
        max_possible_edges == (n * (n - 1)) \div 2
        component_set == SeqToSet(component_nodes)
        edge_pairs ==
            UNION { { << Min(node, neighbor), Max(node, neighbor) >> :
                        neighbor \in SeqToSet(Neighbors(g, node)) \cap component_set } :
                    node \in component_set }
    IN  IF n <= 1 THEN Fin(0)
        ELSE IF max_possible_edges = 0 THEN Fin(0)
        ELSE Rat(Cardinality(edge_pairs), max_possible_edges)

\* the sum of the first m elements of s
RECURSIVE SumNatTo(_, _)
SumNatTo(s, m) == IF m = 0 THEN 0 ELSE SumNatTo(s, m - 1) + s[m]

SumNat(s) == SumNatTo(s, Len(s))

calculate_average_degree_centrality(g, component_nodes) ==
    LET n == Len(component_nodes)
        total_degree ==
            SumNat([ i \in 1..n |-> Len(Neighbors(g, component_nodes[i])) ])
        avg_degree == FDivInt(Fin(total_degree), n)
    IN  IF n <= 1 THEN Fin(0)
        ELSE FDivInt(avg_degree, n - 1)

----------------------------------------------------------------------------
(* main.rs: analyze_fraud_patterns *)

\* user_transaction_counts after the loop of lines 141-146
UserTransactionCounts(txs) ==
    [ u \in { txs[i].user_id : i \in 1..Len(txs) } |->
        Cardinality({ i \in 1..Len(txs) : txs[i].user_id = u }) ]

\* user_fraud_counts after the loop of lines 141-146: an entry only for a
\* user with a transaction labelled Some(1)
UserFraudCounts(txs) ==
    [ u \in { txs[i].user_id : i \in { j \in 1..Len(txs) : txs[j].fraudulent = Some(1) } } |->
        Cardinality({ i \in 1..Len(txs) :
                        txs[i].user_id = u /\ txs[i].fraudulent = Some(1) }) ]

\* the filter with >= 1 in place of > 1
RepeatOffendersAtLeastOne(counts) ==
    { << u, counts[u] >> : u \in { v \in DOMAIN counts : counts[v] >= 1 } }

\* user_fraud_counts.iter().filter(|(_, &count)| count > 1).collect()
RepeatOffenders(counts) ==
    { << u, counts[u] >> : u \in { v \in DOMAIN counts : counts[v] > 1 } }

\* the for loop of lines 172-177 over the neighbors of the popped node:
\* each neighbor not yet visited is marked visited and pushed
PushUnvisited(nbrs, vis, stk) ==
    LET F[m \in 0..Len(nbrs)] ==
            IF m = 0 THEN [visited |-> vis, stack |-> stk]
            ELSE IF nbrs[m] \notin F[m - 1].visited
                 THEN [visited |-> F[m - 1].visited \cup { nbrs[m] },
                       stack |-> Append(F[m - 1].stack, nbrs[m])]
                 ELSE F[m - 1]
    IN  F[Len(nbrs)]

\* the count of the members that carry any fraud label, 0 included
ComponentFraudCountAnyLabel(g, txs, comp) ==
    Cardinality({ i \in 1..Len(comp) : NodeWeight(g, txs, comp[i]).fraudulent.some })

\* component.iter().filter(|node| weight.fraudulent == Some(1)).count()
ComponentFraudCount(g, txs, comp) ==
    Cardinality({ i \in 1..Len(comp) : NodeWeight(g, txs, comp[i]).fraudulent = Some(1) })

\* the tuple pushed to fraud_rings at line 199
Ring(g, txs, comp) ==
    LET users == { NodeWeight(g, txs, comp[i]).user_id : i \in 1..Len(comp) }
    IN  [ component |-> comp,
          density |-> calculate_component_density(g, comp),
          centrality |-> calculate_average_degree_centrality(g, comp),
          fraud_count |-> ComponentFraudCount(g, txs, comp),
          user_count |-> Cardinality(users),
          user_transactions |->
              [ u \in users |->
                  Cardinality({ i \in 1..Len(comp) :
                                  NodeWeight(g, txs, comp[i]).user_id = u }) ] ]

\* main.rs 266: let graph = build_transaction_graph(transactions_slice)
BuildGraph ==
    /\ pc = "build"
    /\ graph' = build_transaction_graph(transactions)
    /\ pc' = "track"
    /\ UNCHANGED << transactions, n_clusters, clusterVars, user_fraud_counts,
                    user_transaction_counts, repeat_offenders, node_cursor,
                    visited, stack, component, fraud_rings, pushes, pops,
                    components >>

\* lines 135-161: the per-user counts and the repeat offenders
TrackUsers ==
    /\ pc = "track"
    /\ user_transaction_counts' = UserTransactionCounts(transactions)
    /\ user_fraud_counts' = UserFraudCounts(transactions)
    /\ repeat_offenders' = RepeatOffenders(user_fraud_counts')
    /\ fraud_rings' = << >>
    /\ visited' = {}
    /\ node_cursor' = 0
    /\ pushes' = [ n \in 1..Len(graph.nodes) |-> 0 ]
    /\ pops' = [ n \in 1..Len(graph.nodes) |-> 0 ]
    /\ components' = << >>
    /\ pc' = "rings"
    /\ UNCHANGED << transactions, n_clusters, clusterVars, graph, stack, component >>

\* lines 164-165: the next node of graph.node_indices() is already visited
SkipVisited ==
    /\ pc = "rings"
    /\ node_cursor < Len(graph.nodes)
    /\ (node_cursor + 1) \in visited
    /\ node_cursor' = node_cursor + 1
    /\ UNCHANGED << pc, transactions, n_clusters, clusterVars, graph,
                    user_fraud_counts, user_transaction_counts, repeat_offenders,
                    visited, stack, component, fraud_rings, pushes, pops,
                    components >>

\* a new component is rooted without the root being marked visited
StartComponentUnmarked ==
    /\ pc = "rings"
    /\ node_cursor < Len(graph.nodes)
    /\ (node_cursor + 1) \notin visited
    /\ component' = << >>
    /\ stack' = << node_cursor + 1 >>
    /\ pushes' = [pushes EXCEPT ![node_cursor + 1] = @ + 1]
    /\ pc' = "dfs"
    /\ UNCHANGED << transactions, n_clusters, clusterVars, graph,
                    user_fraud_counts, user_transaction_counts, repeat_offenders,
                    node_cursor, visited, fraud_rings, pops, components >>

\* lines 165-168: the next node is unvisited and roots a new component
StartComponent ==
    /\ pc = "rings"
    /\ node_cursor < Len(graph.nodes)
    /\ (node_cursor + 1) \notin visited
    /\ component' = << >>
    /\ stack' = << node_cursor + 1 >>
    /\ visited' = visited \cup { node_cursor + 1 }
    /\ pushes' = [pushes EXCEPT ![node_cursor + 1] = @ + 1]
    /\ pc' = "dfs"
    /\ UNCHANGED << transactions, n_clusters, clusterVars, graph,
                    user_fraud_counts, user_transaction_counts, repeat_offenders,
                    node_cursor, fraud_rings, pops, components >>

\* lines 170-178: one iteration of `while let Some(current) = stack.pop()`
VisitNode ==
    /\ pc = "dfs"
    /\ stack # << >>
    /\ LET current == stack[Len(stack)]
           after == PushUnvisited(Neighbors(graph, current), visited,
                                  SubSeq(stack, 1, Len(stack) - 1))
       IN  /\ component' = Append(component, current)
           /\ visited' = after.visited
           /\ stack' = after.stack
           /\ pops' = [pops EXCEPT ![current] = @ + 1]
           /\ pushes' = [ n \in DOMAIN pushes |->
                             pushes[n] + Cardinality({ m \in Len(stack)..Len(stack') :
                                                         stack'[m] = n }) ]
    /\ UNCHANGED << pc, transactions, n_clusters, clusterVars, graph,
                    user_fraud_counts, user_transaction_counts, repeat_offenders,
                    node_cursor, fraud_rings, components >>

\* lines 180-202: the stack is empty; the component is recorded as a fraud
\* ring when it holds a fraudulent transaction
RecordComponent ==
    /\ pc = "dfs"
    /\ stack = << >>
    /\ IF component # << >> /\ ComponentFraudCount(graph, transactions, component) > 0
       THEN fraud_rings' = Append(fraud_rings, Ring(graph, transactions, component))
       ELSE fraud_rings' = fraud_rings
    /\ components' = Append(components, component)
    /\ node_cursor' = node_cursor + 1
    /\ pc' = "rings"
    /\ UNCHANGED << transactions, n_clusters, clusterVars, graph,
                    user_fraud_counts, user_transaction_counts, repeat_offenders,
                    visited, stack, component, pushes, pops >>

\* lines 205-223: every node has been looked at; the rings are printed
PrintRings ==
    /\ pc = "rings"
    /\ node_cursor = Len(graph.nodes)
    /\ pc' = "done"
    /\ UNCHANGED << transactions, n_clusters, clusterVars, graphVars >>

NextGraph ==
    \/ BuildGraph
    \/ TrackUsers
    \/ SkipVisited
    \/ StartComponent
    \/ VisitNode
    \/ RecordComponent
    \/ PrintRings

----------------------------------------------------------------------------
(* Inputs of the graph stage *)

\* a record with no amount and no time: its feature vector is zero but for
\* the type and payment codes
GraphRecord(id, user, fraud, type, payment) ==
    Transaction(id, user, NoneF, type, NoneF, NoneI, NoneI, NoneI, payment, fraud)

\* (user id, fraud label, type, payment) of the records.  The type and
\* payment codes are (3,0), (3,3), (0,3) or (0,0): the first and the third
\* are each similar to the second and not to each other, the fourth gives
\* the zero vector
GraphKinds ==
    { << 1, Some(1), "Transfer", CreditCard >>,
      << 2, Some(1), "Transfer", Some("Bank Transfer") >>,
      << 1, Some(0), "ATM Withdrawal", Some("Bank Transfer") >>,
      << 2, Some(0), "Transfer", CreditCard >>,
      << 1, Some(1), "ATM Withdrawal", CreditCard >>,
      << 1, NoneI, "Transfer", Some("Bank Transfer") >> }

TxId(i) == CASE i = 1 -> "T1" [] i = 2 -> "T2" [] i = 3 -> "T3" [] i = 4 -> "T4" [] OTHER -> "T5"

\* lists of up to n records; the record at position i has its own id or
\* shares the id of the first record
GraphInputs(n) ==
    UNION { { [ i \in 1..m |-> GraphRecord(ids[i], kd[i][1], kd[i][2], kd[i][3], kd[i][4]) ] :
                ids \in { f \in [1..m -> { TxId(j) : j \in 1..m }] :
                            \A i \in 1..m : f[i] \in { TxId(i), TxId(1) } },
                kd \in [1..m -> GraphKinds] } : m \in 0..n }

\* build_transaction_graph and analyze_fraud_patterns called on a list of
\* up to MaxNodes records
InitGraph ==
    /\ pc = "build"
    /\ transactions \in GraphInputs(MaxNodes)
    /\ n_clusters = 0
    /\ InitRest

SpecGraph == InitGraph /\ [][NextGraph]_vars

----------------------------------------------------------------------------
(* main.rs: main *)

\* line 236: analyze_clusters(&transactions, n_clusters)? returns the error
MainErr ==
    /\ pc = "clustered"
    /\ result.tag # "Ok"
    /\ pc' = "exit"
    /\ UNCHANGED << transactions, n_clusters, clusterVars, graphVars >>

\* lines 236-265: the cluster results are printed and the graph stage begins
MainPrintClusters ==
    /\ pc = "clustered"
    /\ result.tag = "Ok"
    /\ pc' = "build"
    /\ UNCHANGED << transactions, n_clusters, clusterVars, graphVars >>

Next ==
    \/ NextClusters
    \/ MainErr
    \/ MainPrintClusters
    \/ NextGraph

\* main on a list of up to MaxMain records; n_clusters is drawn from
\* 0..MaxK (main.rs fixes it to 5, the tests to 2)
Init ==
    /\ pc = "start"
    /\ transactions \in GraphInputs(MaxMain)
    /\ n_clusters \in 0..MaxK
    /\ InitRest

Spec == Init /\ [][Next]_vars

----------------------------------------------------------------------------
(* Graph stage and main: properties *)

GraphBuilt == pc \in { "track", "rings", "dfs", "done" }

\* the DFS of the current root has emptied its stack: component is complete
ComponentComplete == pc = "dfs" /\ stack = << >>

\* 0.0 <= x <= 1.0
InUnitInterval(x) == is_finite(x) /\ 0 <= x.n /\ x.n <= x.d

\* C4 as stated: the graph has one node per input record, no self-loop and
\* at most one edge between any unordered pair of nodes, also when records
\* share a transaction identifier.
C4_SimpleGraph ==
    GraphBuilt =>
        /\ Len(graph.nodes) = Len(transactions)
        /\ \A m \in 1..Len(graph.edges) : graph.edges[m][1] # graph.edges[m][2]
        /\ \A m1, m2 \in 1..Len(graph.edges) :
               m1 # m2 => { graph.edges[m1][1], graph.edges[m1][2] }
                              # { graph.edges[m2][1], graph.edges[m2][2] }

\* C5 as stated: for every connected component of a graph built by
\* build_transaction_graph, density and average degree centrality are in
\* [0,1], and both are exactly 0.0 for a component of one node.
C5_MetricsInUnitInterval ==
    ComponentComplete =>
        /\ InUnitInterval(calculate_component_density(graph, component))
        /\ InUnitInterval(calculate_average_degree_centrality(graph, component))
        /\ Len(component) = 1 =>
               /\ calculate_component_density(graph, component) = Fin(0)
               /\ calculate_average_degree_centrality(graph, component) = Fin(0)

\* C10: on an empty transaction list nothing fails: analyze_clusters
\* returns Ok with an empty list for every k, the graph has no nodes and
\* no edges, and no fraud ring and no repeat offender is found.
C10_EmptyInputNeverFails ==
    transactions = << >> =>
        /\ pc # "exit"
        /\ pc \notin { "start", "fit", "analyze" } => result = Ok(<< >>)
        /\ GraphBuilt => graph = [nodes |-> << >>, edges |-> << >>]
        /\ pc = "done" =>
               /\ fraud_rings = << >>
               /\ repeat_offenders = {}
               /\ user_fraud_counts = << >>

C10_Witness ==
    /\ pc = "done"
    /\ transactions = << >>
    /\ n_clusters = 0
    /\ result = Ok(<< >>)
    /\ fraud_rings = << >>

----------------------------------------------------------------------------
(* analyze_fraud_patterns: properties *)

\* the nodes joined to a node of S by a path of edges of g, S included
RECURSIVE ReachFrom(_, _)
ReachFrom(g, S) ==
    LET step == S \cup { g.edges[m][2] : m \in { k \in 1..Len(g.edges) : g.edges[k][1] \in S } }
                  \cup { g.edges[m][1] : m \in { k \in 1..Len(g.edges) : g.edges[k][2] \in S } }
    IN  IF step = S THEN S ELSE ReachFrom(g, step)

\* a path of edges of g joins a and b
Connected(g, a, b) == b \in ReachFrom(g, { a })

\* the transaction of node n has fraud label 1
IsFraudNode(n) == transactions[graph.nodes[n]].fraudulent = Some(1)

\* C11: a connected component is recorded as a fraud ring iff one of its
\* member transactions has fraud label 1; the recorded fraud_count is the
\* number of such members and the recorded user count is the number of
\* distinct user ids among the members.
C11_RingIffFraudulentMember ==
    /\ \A j \in 1..Len(fraud_rings) :
           LET members == SeqToSet(fraud_rings[j].component)
           IN  /\ members = ReachFrom(graph, { fraud_rings[j].component[1] })
               /\ Len(fraud_rings[j].component) = Cardinality(members)
               /\ fraud_rings[j].fraud_count
                      = Cardinality({ n \in members : IsFraudNode(n) })
               /\ fraud_rings[j].fraud_count > 0
               /\ fraud_rings[j].user_count
                      = Cardinality({ transactions[graph.nodes[n]].user_id : n \in members })
    /\ \A j1, j2 \in 1..Len(fraud_rings) :
           j1 # j2 => SeqToSet(fraud_rings[j1].component)
                          \cap SeqToSet(fraud_rings[j2].component) = {}
    /\ pc = "done" =>
           \A n \in 1..Len(graph.nodes) :
               (\E j \in 1..Len(fraud_rings) : n \in SeqToSet(fraud_rings[j].component))
                   <=> (\E m \in ReachFrom(graph, { n }) : IsFraudNode(m))

\* three nodes: a recorded component of two transactions of two users with
\* one fraudulent member, and a fraud-free component that is not recorded
C11_Witness ==
    /\ pc = "done"
    /\ Len(graph.nodes) = 3
    /\ Len(fraud_rings) = 1
    /\ Len(fraud_rings[1].component) = 2
    /\ fraud_rings[1].fraud_count = 1
    /\ fraud_rings[1].user_count = 2

\* the per-user counts have been taken
UsersTracked == pc \in { "rings", "dfs", "done" }

\* number of the transactions of user u in txs
RECURSIVE TotalOf(_, _)
TotalOf(txs, u) ==
    IF txs = << >> THEN 0
    ELSE (IF Head(txs).user_id = u THEN 1 ELSE 0) + TotalOf(Tail(txs), u)

\* number of the transactions of user u in txs that have fraud label 1
RECURSIVE FraudsOf(_, _)
FraudsOf(txs, u) ==
    IF txs = << >> THEN 0
    ELSE (IF Head(txs).user_id = u /\ Head(txs).fraudulent = Some(1) THEN 1 ELSE 0)
             + FraudsOf(Tail(txs), u)

\* C12: a user id is listed as a repeat offender iff more than one of that
\* user's transactions in the whole input has fraud label 1, whatever the
\* graph is; for every user the accumulated fraud count is at most the
\* accumulated transaction count.
C12_RepeatOffenderIffTwoFrauds ==
    UsersTracked =>
        /\ \A i \in 1..Len(transactions) :
               LET u == transactions[i].user_id
               IN  /\ (\E o \in repeat_offenders : o[1] = u)
                          <=> FraudsOf(transactions, u) > 1
                   /\ user_transaction_counts[u] = TotalOf(transactions, u)
                   /\ u \in DOMAIN user_fraud_counts
                          <=> FraudsOf(transactions, u) > 0
        /\ \A o \in repeat_offenders :
               /\ o[2] = FraudsOf(transactions, o[1])
               /\ o[1] \in { transactions[i].user_id : i \in 1..Len(transactions) }
        /\ \A u \in DOMAIN user_fraud_counts :
               /\ u \in DOMAIN user_transaction_counts
               /\ user_fraud_counts[u] = FraudsOf(transactions, u)
               /\ user_fraud_counts[u] <= user_transaction_counts[u]

\* user 1 has two fraudulent transactions and is listed; user 2 has one
\* and is not
C12_Witness ==
    /\ pc = "done"
    /\ repeat_offenders = { << 1, 2 >> }
    /\ 2 \in DOMAIN user_fraud_counts
    /\ user_fraud_counts[2] = 1
    /\ user_transaction_counts[1] = 2

----------------------------------------------------------------------------
(* analyze_fraud_patterns: the traversal *)

\* main.rs 267: analyze_fraud_patterns(&graph), one step of its body
AnalyzeFraudPatternsStep ==
    \/ TrackUsers
    \/ SkipVisited
    \/ StartComponent
    \/ VisitNode
    \/ RecordComponent
    \/ PrintRings

\* the function runs on one thread: while a step of its body is possible,
\* one is taken
SpecGraphFair == SpecGraph /\ WF_vars(AnalyzeFraudPatternsStep)

\* the components among cs that hold node n
ComponentsOf(cs, n) == { j \in 1..Len(cs) : n \in SeqToSet(cs[j]) }

\* no node was pushed or popped twice, none was popped without having been
\* pushed; at the end every node was pushed and popped once and is in one
\* completed component, once, and two nodes share a component iff a path
\* of edges joins them
TraversalPartitions ==
    UsersTracked =>
        /\ \A n \in 1..Len(graph.nodes) :
               /\ pushes[n] <= 1
               /\ pops[n] <= pushes[n]
        /\ \A j \in 1..Len(components) :
               Len(components[j]) = Cardinality(SeqToSet(components[j]))
        /\ pc = "done" =>
               /\ \A n \in 1..Len(graph.nodes) :
                      /\ pushes[n] = 1
                      /\ pops[n] = 1
                      /\ Cardinality(ComponentsOf(components, n)) = 1
               /\ \A a, b \in 1..Len(graph.nodes) :
                      (ComponentsOf(components, a) = ComponentsOf(components, b))
                          <=> Connected(graph, a, b)

\* C13: called on any graph, the stack-based traversal terminates, every node is
\* pushed and popped exactly once and ends up in exactly one component,
\* and two nodes are in the same component iff a path of edges joins them.
C13_TraversalTerminatesAndPartitions ==
    /\ [](TraversalPartitions)
    /\ (GraphBuilt ~> (pc = "done"))

\* a finished traversal of three nodes joined by two edges in a path
C13_Witness ==
    /\ pc = "done"
    /\ Len(graph.nodes) = 3
    /\ graph.edges = << << 1, 2 >>, << 2, 3 >> >>
    /\ components = << << 1, 2, 3 >> >>
    /\ \A n \in 1..3 : pushes[n] = 1 /\ pops[n] = 1

=============================================================================
